---- MODULE Spec2Model ----
(***************************************************************************)
(* Model of the two scripts of joltex/hack:                                *)
(*   speedread/speedread.py                 AiReader, read_file, ...       *)
(*   vancouver_heritage/heritage_photos.py  Location, scraper, exporters   *)
(* Python strings are sequences of one-character strings, so that          *)
(* endswith, `in`, join and f-string formatting are computed, not assumed. *)
(* Calls into third-party libraries (pypdf, pytesseract, anthropic,        *)
(* requests, geopy) are environment choices drawn with \E.                 *)
(***************************************************************************)
EXTENDS Integers, Sequences, FiniteSets, TLC

VARIABLES
    script,     \* which of the two independent scripts this process runs
    reader,     \* speedread: the AiReader object the caller holds (or none)
    call,       \* the last completed call: operation, arguments, outcome, trace
    locs,       \* heritage: the caller's list of Location objects
    csvFile,    \* heritage: contents of the csv output file on disk
    scrape      \* heritage: frame of a running get_locations_without_photos

vars == <<script, reader, call, locs, csvFile, scrape>>

----------------------------------------------------------------------------
(* Bounds of the model *)
MaxPages    == 2    \* pages of a pdf
MaxSegments == 2    \* content segments of an LLM response
MaxRows     == 2    \* <tr> rows of a page, over all its tables
MaxCells    == 2    \* <th> cells of a table and <td> cells of a row
MaxLocs     == 2    \* Locations a caller appends to a list by hand

----------------------------------------------------------------------------
(* Python values *)

\* str values are [isNone |-> FALSE, s |-> <<chars>>]; None is NoneStr.
NoneStr == [isNone |-> TRUE, s |-> <<>>]
Str(s)  == [isNone |-> FALSE, s |-> s]

\* bool(x) of an Optional[str]: None and "" are falsy.
StrTruthy(x) == ~x.isNone /\ x.s # <<>>

\* str.endswith(suffix)
EndsWith(s, suffix) ==
    /\ Len(s) >= Len(suffix)
    /\ SubSeq(s, Len(s) - Len(suffix) + 1, Len(s)) = suffix

\* `sub in s` for strings
IsSubstring(sub, s) ==
    \E i \in 0..(Len(s) - Len(sub)) : SubSeq(s, i + 1, i + Len(sub)) = sub

\* f"{x}" of an Optional[str]
FormatOptStr(x) == IF x.isNone THEN <<"N", "o", "n", "e">> ELSE x.s

NoExc == [cls |-> "none", msg |-> "none"]
Exc(cls, msg) == [cls |-> cls, msg |-> msg]

----------------------------------------------------------------------------
(* speedread.py: inputs *)

DotPdf == <<".", "p", "d", "f">>
DotTxt == <<".", "t", "x", "t">>
Claude == <<"c", "l", "a", "u", "d", "e">>

PathStrings ==
    { <<>>,
      <<"a">> \o DotPdf,
      <<"a">> \o DotTxt,
      <<"a", ".", "d", "o", "c", "x">>,
      <<"a", "p", "d", "f">> }

\* file: str | Path | None.  pathlib.Path("") is ".", so a Path is never empty.
NoFile == [kind |-> "None", s |-> <<>>]
Files ==
    {NoFile}
    \cup {[kind |-> "str", s |-> p] : p \in PathStrings}
    \cup {[kind |-> "Path", s |-> p] : p \in PathStrings \ {<<>>}}

\* bool(file): None and "" are falsy, every Path object is truthy.
FileTruthy(file) ==
    \/ file.kind = "Path"
    \/ file.kind = "str" /\ file.s # <<>>

Texts == { <<>>, <<"x">>, <<"y">> }
OptTexts == {NoneStr} \cup {Str(t) : t \in Texts}

\* One page of a pdf: its embedded text and what OCR reads off its image.
PageKinds ==
    { [embedded |-> <<>>,    ocr |-> <<>>],
      [embedded |-> <<>>,    ocr |-> <<"p">>],
      [embedded |-> <<>>,    ocr |-> <<"q">>],
      [embedded |-> <<"x">>, ocr |-> <<"p">>],
      [embedded |-> <<"y">>, ocr |-> <<"q">>] }

RECURSIVE SeqsUpTo(_, _)
SeqsUpTo(S, n) ==
    IF n = 0 THEN { <<>> }
    ELSE LET shorter == SeqsUpTo(S, n - 1)
         IN shorter \cup { Append(q, x) : q \in {r \in shorter : Len(r) = n - 1}, x \in S }

\* What is on disk at the path: nothing, or a document.
Disks ==
    {[exists |-> FALSE, pages |-> <<>>, content |-> <<>>]}
    \cup {[exists |-> TRUE, pages |-> ps, content |-> <<>>] : ps \in SeqsUpTo(PageKinds, MaxPages)}
    \cup {[exists |-> TRUE, pages |-> <<>>, content |-> c] : c \in Texts}

Models ==
    { <<"c", "l", "a", "u", "d", "e", "-", "3">>,
      <<"x", "-", "c", "l", "a", "u", "d", "e">>,
      <<"g", "p", "t">>,
      <<"C", "l", "a", "u", "d", "e">>,
      <<>> }

ApiKeys == {NoneStr, Str(<<"k">>)}
ConfigApiKey == Str(<<"c", "f", "g">>)

Prompts == { <<"s">>, <<>> }
DefaultMaxTokens == 2048

----------------------------------------------------------------------------
(* speedread.py: functions *)

\* A function's outcome: the exception it raises or the value it returns,
\* and the library calls it made, in order.
Raised(cls, msg, trace) == [exc |-> Exc(cls, msg), ret |-> NoneStr, trace |-> trace]
Returned(text, trace) == [exc |-> NoExc, ret |-> Str(text), trace |-> trace]

\* "".join([page.extract_text() for page in reader.pages])
RECURSIVE JoinExtractText(_)
JoinExtractText(pages) ==
    IF pages = <<>> THEN <<>>
    ELSE Head(pages).embedded \o JoinExtractText(Tail(pages))

RECURSIVE ExtractTrace(_)
ExtractTrace(pages) ==
    IF pages = <<>> THEN <<>>
    ELSE <<"extract_text">> \o ExtractTrace(Tail(pages))

\* the loop of text_from_images: text += pytesseract.image_to_string(image)
RECURSIVE OcrLoop(_, _)
OcrLoop(images, text) ==
    IF images = <<>> THEN text
    ELSE OcrLoop(Tail(images), text \o Head(images).ocr)

RECURSIVE OcrTrace(_)
OcrTrace(images) ==
    IF images = <<>> THEN <<>>
    ELSE <<"image_to_string">> \o OcrTrace(Tail(images))

text_from_images(disk) ==
    Returned(OcrLoop(disk.pages, <<>>),
             <<"convert_from_path">> \o OcrTrace(disk.pages))

read_pdf(disk) ==
    IF ~disk.exists
    THEN Raised("FileNotFoundError", "no such file", <<"PdfReader">>)
    ELSE LET text == JoinExtractText(disk.pages)
             trace == <<"PdfReader">> \o ExtractTrace(disk.pages)
         IN IF text = <<>>
            THEN LET ocr == text_from_images(disk)
                 IN Returned(ocr.ret.s, trace \o ocr.trace)
            ELSE Returned(text, trace)

read_txt(disk) ==
    IF ~disk.exists
    THEN Raised("FileNotFoundError", "no such file", <<"open">>)
    ELSE Returned(disk.content, <<"open", "read">>)

\* read_file with the `if not file` guard after the extension checks
read_file_guard_last(file, disk) ==
    IF file.kind # "str"
    THEN Raised("AttributeError", "endswith", <<"endswith">>)
    ELSE IF EndsWith(file.s, DotPdf)
    THEN LET r == read_pdf(disk)
         IN [r EXCEPT !.trace = <<"endswith">> \o @]
    ELSE IF EndsWith(file.s, DotTxt)
    THEN LET r == read_txt(disk)
         IN [r EXCEPT !.trace = <<"endswith", "endswith">> \o @]
    ELSE Raised("NotImplementedError", "File type not supported",
                <<"endswith", "endswith">>)

read_file(file, disk) ==
    IF ~FileTruthy(file)
    THEN Raised("ValueError", "No file path provided", <<>>)
    ELSE IF file.kind = "Path"
    THEN \* pathlib.Path has no attribute endswith
         Raised("AttributeError", "endswith", <<"endswith">>)
    ELSE IF EndsWith(file.s, DotPdf)
    THEN LET r == read_pdf(disk)
         IN [r EXCEPT !.trace = <<"endswith">> \o @]
    ELSE IF EndsWith(file.s, DotTxt)
    THEN LET r == read_txt(disk)
         IN [r EXCEPT !.trace = <<"endswith", "endswith">> \o @]
    ELSE Raised("NotImplementedError", "File type not supported",
                <<"endswith", "endswith">>)

\* get_response: one client.messages.create, then .content[0].text
Segments == { <<>>, <<"r">> }
LlmOutcomes ==
    {[ok |-> FALSE, content |-> <<>>]}
    \cup {[ok |-> TRUE, content |-> c] : c \in SeqsUpTo(Segments, MaxSegments)}

\* get_response that sends the request again when the first attempt fails
get_response_retry(prompt, model, max_tokens, llm) ==
    LET request == [model |-> model, max_tokens |-> max_tokens, prompt |-> prompt]
    IN IF ~llm.ok
       THEN [exc |-> Exc("APIConnectionError", "connection error"),
             ret |-> NoneStr, trace |-> <<"messages.create", "messages.create">>,
             sent |-> <<request, request>>]
       ELSE IF llm.content = <<>>
       THEN [exc |-> Exc("IndexError", "list index out of range"),
             ret |-> NoneStr, trace |-> <<"messages.create">>, sent |-> <<request>>]
       ELSE [exc |-> NoExc, ret |-> Str(llm.content[1]),
             trace |-> <<"messages.create">>, sent |-> <<request>>]

get_response(prompt, model, max_tokens, llm) ==
    LET request == [model |-> model, max_tokens |-> max_tokens, prompt |-> prompt]
    IN IF ~llm.ok
       THEN [exc |-> Exc("APIConnectionError", "connection error"),
             ret |-> NoneStr, trace |-> <<"messages.create">>, sent |-> <<request>>]
       ELSE IF llm.content = <<>>
       THEN [exc |-> Exc("IndexError", "list index out of range"),
             ret |-> NoneStr, trace |-> <<"messages.create">>, sent |-> <<request>>]
       ELSE [exc |-> NoExc, ret |-> Str(llm.content[1]),
             trace |-> <<"messages.create">>, sent |-> <<request>>]

ContentOpen  == <<"<", "c", ">">>
ContentClose == <<"<", "/", "c", ">">>
SlashN == <<"/", "n">>

summarize_text(text, prompt, model, max_tokens, llm) ==
    LET full_prompt == ContentOpen \o FormatOptStr(text) \o ContentClose
                       \o SlashN \o prompt
    IN get_response(full_prompt, model, max_tokens, llm)

\* AiReader.__attrs_post_init__: the object a successful construction yields,
\* or the exception it ends in.
NoReader == [live |-> FALSE, file |-> NoFile, model |-> <<>>, text |-> NoneStr,
             client |-> FALSE, api_key |-> NoneStr]

__attrs_post_init__(file, model, text, api_key, disk) ==
    LET doRead == FileTruthy(file) /\ ~StrTruthy(text)
        r == IF doRead THEN read_file(file, disk) ELSE Returned(<<>>, <<>>)
        text1 == IF doRead THEN r.ret ELSE text
    IN IF doRead /\ r.exc # NoExc
       THEN [obj |-> NoReader, exc |-> r.exc, trace |-> r.trace]
       ELSE IF IsSubstring(Claude, model)
       THEN [obj |-> [live |-> TRUE, file |-> file, model |-> model, text |-> text1,
                      client |-> TRUE,
                      api_key |-> IF StrTruthy(api_key) THEN api_key ELSE ConfigApiKey],
             exc |-> NoExc, trace |-> r.trace \o <<"Anthropic">>]
       ELSE [obj |-> NoReader, exc |-> Exc("NotImplementedError", "Model not supported"),
             trace |-> r.trace]

----------------------------------------------------------------------------
(* heritage_photos.py: inputs *)

Addresses == { <<"a">>, <<"b">> }
Cities    == { <<"V">>, <<"B">> }
Names     == { NoneStr, Str(<<"n">>) }

\* What geolocator.geocode does: raises, returns None, or returns a
\* geopy Location carrying a coordinate pair.
GeoOutcomes ==
    { [kind |-> "raise", latitude |-> 0, longitude |-> 0],
      [kind |-> "none",  latitude |-> 0, longitude |-> 0],
      [kind |-> "found", latitude |-> 49, longitude |-> 123] }

\* Optional[GeopyLocation] and Optional[float]
NoGeopy == [isNone |-> TRUE, latitude |-> 0, longitude |-> 0]
NoFloat == [isNone |-> TRUE, v |-> 0]
Float(v) == [isNone |-> FALSE, v |-> v]

\* text of a <th>: what table.findAll("th") yields, before strip
photo_col    == <<"P", "h", "o", "t", "o">>
location_col == <<"L", "o", "c", "a", "t", "i", "o", "n">>
HeaderTexts  == { photo_col, <<" ">> \o photo_col \o <<"s">>, location_col, <<"N">> }

\* a <td>: its raw text and whether it holds an <img>
CellKinds ==
    { [text |-> <<"a">>,           img |-> FALSE],
      [text |-> <<" ", "b", " ">>, img |-> FALSE],
      [text |-> <<"a">>,           img |-> TRUE] }

----------------------------------------------------------------------------
(* heritage_photos.py: Location *)

\* _geolocate without its try/except
_geolocate_uncaught(address, city, geo) ==
    IF geo.kind = "found"
    THEN [exc |-> NoExc,
          val |-> [isNone |-> FALSE, latitude |-> geo.latitude, longitude |-> geo.longitude]]
    ELSE IF geo.kind = "raise"
    THEN [exc |-> Exc("GeocoderServiceError", "geocode"), val |-> NoGeopy]
    ELSE [exc |-> NoExc, val |-> NoGeopy]

\* Location._geolocate: the attrs default of geopy_location
_geolocate(address, city, geo) ==
    IF geo.kind = "found"
    THEN [exc |-> NoExc,
          val |-> [isNone |-> FALSE, latitude |-> geo.latitude, longitude |-> geo.longitude]]
    ELSE [exc |-> NoExc, val |-> NoGeopy]

\* Location(address=..., city=..., name=...)
NoLocation == [address |-> <<>>, city |-> <<>>, geopy_location |-> NoGeopy, name |-> NoneStr]

Location(address, city, name, geo) ==
    LET g == _geolocate(address, city, geo)
    IN IF g.exc # NoExc
       THEN [exc |-> g.exc, obj |-> NoLocation]
       ELSE [exc |-> NoExc,
             obj |-> [address |-> address, city |-> city,
                      geopy_location |-> g.val, name |-> name]]

\* the latitude / longitude properties
latitude(loc) ==
    IF ~loc.geopy_location.isNone THEN Float(loc.geopy_location.latitude) ELSE NoFloat

longitude(loc) ==
    IF ~loc.geopy_location.isNone THEN Float(loc.geopy_location.longitude) ELSE NoFloat

----------------------------------------------------------------------------
(* heritage_photos.py: get_locations_without_photos *)

\* get_text(strip=True)
RECURSIVE LStrip(_)
LStrip(s) == IF s # <<>> /\ Head(s) = " " THEN LStrip(Tail(s)) ELSE s

RECURSIVE RStrip(_)
RStrip(s) ==
    IF s # <<>> /\ s[Len(s)] = " " THEN RStrip(SubSeq(s, 1, Len(s) - 1)) ELSE s

Strip(s) == RStrip(LStrip(s))

\* next((i for i, header in enumerate(headers) if col in header), None)
NoIndex == [isNone |-> TRUE, i |-> 0]
RECURSIVE FirstIndexFrom(_, _, _)
FirstIndexFrom(headers, col, i) ==
    IF i >= Len(headers) THEN NoIndex
    ELSE IF IsSubstring(col, Strip(headers[i + 1])) THEN [isNone |-> FALSE, i |-> i]
    ELSE FirstIndexFrom(headers, col, i + 1)

FirstIndex(headers, col) == FirstIndexFrom(headers, col, 0)

Max(a, b) == IF a > b THEN a ELSE b

\* the guard of line 82
RowHasBothCells(columns, photo_index, location_index) ==
    Len(columns) > Max(photo_index, location_index)

\* the row loop body with the image test inverted
RowLocations_img_inverted(columns, photo_index, location_index, city, geo) ==
    IF Len(columns) > Max(photo_index, location_index)
    THEN LET photo_column == columns[photo_index + 1]
             address == Strip(columns[location_index + 1].text)
         IN IF photo_column.img
            THEN <<Location(address, city, NoneStr, geo)>>
            ELSE <<>>
    ELSE <<>>

\* the body of the row loop: the Locations this row appends
RowLocations(columns, photo_index, location_index, city, geo) ==
    IF RowHasBothCells(columns, photo_index, location_index)
    THEN LET photo_column == columns[photo_index + 1]
             address == Strip(columns[location_index + 1].text)
         IN IF ~photo_column.img
            THEN <<Location(address, city, NoneStr, geo)>>
            ELSE <<>>
    ELSE <<>>

----------------------------------------------------------------------------
(* heritage_photos.py: exporters *)

\* f"{x}" of an Optional[float]
FormatFloat(x) ==
    IF x.isNone THEN <<"None">> ELSE <<ToString(x.v), ".", "0">>

LatLon(loc) == FormatFloat(latitude(loc)) \o <<",">> \o FormatFloat(longitude(loc))

\* the attrs-generated repr, which is what f"{start_location}" formats
ReprLocation(loc) ==
    <<"Location(address=">> \o loc.address \o <<", city=">> \o loc.city
    \o <<", geopy_location=">>
    \o (IF loc.geopy_location.isNone THEN <<"None">>
        ELSE <<"Location(", ToString(loc.geopy_location.latitude), ",",
               ToString(loc.geopy_location.longitude), ")">>)
    \o <<", name=">> \o (IF loc.name.isNone THEN <<"None">> ELSE loc.name.s)
    \o <<")">>

\* "+to:".join([...])
RECURSIVE JoinTo(_)
JoinTo(parts) ==
    IF parts = <<>> THEN <<>>
    ELSE IF Len(parts) = 1 THEN parts[1]
    ELSE parts[1] \o <<"+to:">> \o JoinTo(Tail(parts))

NoStart == [isNone |-> TRUE, loc |-> NoLocation]

generate_google_maps_url_for_ios(locations, start) ==
    IF start.isNone /\ locations = <<>>
    THEN [exc |-> Exc("IndexError", "list index out of range"), url |-> <<>>]
    ELSE LET start_location == IF ~start.isNone THEN start.loc ELSE locations[1]
             start_str == LatLon(start_location)
             destination_locations ==
                 JoinTo([i \in 1..Len(locations) |-> LatLon(locations[i])])
         IN [exc |-> NoExc,
             url |-> <<"comgooglemaps://?saddr=">> \o ReprLocation(start_location)
                     \o <<"&daddr=">> \o destination_locations]

\* converter.unstructure(location) with geopy_location omitted
Unstructure(loc) ==
    [keys |-> <<"address", "city", "name">>,
     vals |-> <<Str(loc.address), Str(loc.city), loc.name>>]

\* csv.DictWriter writes None as the empty string
CsvField(x) == IF x.isNone THEN <<>> ELSE x.s

CsvRow(fieldnames, d) ==
    [i \in 1..Len(fieldnames) |->
        CsvField(d.vals[CHOOSE k \in 1..Len(d.keys) : d.keys[k] = fieldnames[i]])]

\* to_csv: the exception it ends in and the file it leaves on disk
to_csv(locations) ==
    LET csv_data == [i \in 1..Len(locations) |-> Unstructure(locations[i])]
    IN IF csv_data = <<>>
       THEN \* open(output_path, "w") has truncated the file before csv_data[0]
            [exc |-> Exc("IndexError", "list index out of range"),
             file |-> [exists |-> TRUE, header |-> <<>>, rows |-> <<>>]]
       ELSE LET fieldnames == csv_data[1].keys
            IN [exc |-> NoExc,
                file |-> [exists |-> TRUE, header |-> fieldnames,
                          rows |-> [i \in 1..Len(csv_data) |->
                                        CsvRow(fieldnames, csv_data[i])]]]

----------------------------------------------------------------------------
(* State machine.  A run of speedread constructs one AiReader (or calls      *)
(* read_file once) and then summarizes any number of times; a run of        *)
(* heritage_photos builds one list of Locations and then exports it any     *)
(* number of times.                                                         *)

NoCall == [op |-> "none"]
NoScrape == [pc |-> "idle"]

Init ==
    /\ script \in {"speedread", "heritage_photos"}
    /\ reader = NoReader
    /\ call = NoCall
    /\ locs = <<>>
    /\ csvFile = [exists |-> FALSE, header |-> <<>>, rows |-> <<>>]
    /\ scrape = NoScrape

\* AiReader(file=..., model=..., text=..., api_key=...)
NewAiReader ==
    /\ script = "speedread"
    /\ call = NoCall
    /\ \E file \in Files, model \in Models, text \in OptTexts,
          api_key \in ApiKeys, disk \in Disks :
         LET r == __attrs_post_init__(file, model, text, api_key, disk)
         IN /\ reader' = r.obj
            /\ call' = [op |-> "AiReader", file |-> file, model |-> model,
                        text |-> text, disk |-> disk, exc |-> r.exc,
                        obj |-> r.obj, trace |-> r.trace]
    /\ UNCHANGED <<script, locs, csvFile, scrape>>

\* a direct call of read_file(file)
CallReadFile ==
    /\ script = "speedread"
    /\ call = NoCall
    /\ \E file \in Files, disk \in Disks :
         LET r == read_file(file, disk)
         IN call' = [op |-> "read_file", file |-> file, disk |-> disk,
                     exc |-> r.exc, ret |-> r.ret, trace |-> r.trace]
    /\ UNCHANGED <<script, reader, locs, csvFile, scrape>>

\* reader.summarize(prompt, max_tokens)
Summarize ==
    /\ script = "speedread"
    /\ reader.live
    /\ \E prompt \in Prompts, llm \in LlmOutcomes :
         LET r == summarize_text(reader.text, prompt, reader.model, DefaultMaxTokens, llm)
         IN call' = [op |-> "summarize", prompt |-> prompt, llm |-> llm,
                     before |-> reader,
                     exc |-> r.exc, ret |-> r.ret, trace |-> r.trace, sent |-> r.sent]
    /\ UNCHANGED <<script, reader, locs, csvFile, scrape>>

\* loc = Location(address, city, name); locations.append(loc)
AppendLocation ==
    /\ script = "heritage_photos"
    /\ scrape = NoScrape
    /\ call.op \in {"none", "Location"}
    /\ Len(locs) < MaxLocs
    /\ \E address \in Addresses, city \in Cities, name \in Names, geo \in GeoOutcomes :
         LET r == Location(address, city, name, geo)
         IN /\ locs' = IF r.exc = NoExc THEN Append(locs, r.obj) ELSE locs
            /\ call' = [op |-> "Location", geo |-> geo, exc |-> r.exc, obj |-> r.obj]
    /\ UNCHANGED <<script, reader, csvFile, scrape>>

\* get_locations_without_photos(url, city=...): entry
ScrapeCall ==
    /\ script = "heritage_photos"
    /\ scrape = NoScrape
    /\ call = NoCall
    /\ \E city \in Cities :
         scrape' = [pc |-> "fetch", city |-> city, fetches |-> 0,
                    rowsDone |-> 0,
                    photo_index |-> NoIndex, location_index |-> NoIndex,
                    row |-> <<>>, out |-> <<>>]
    /\ UNCHANGED <<script, reader, call, locs, csvFile>>

\* lines 61-63: requests.get(url), parse, find the wikitable tables
ScrapeFetch ==
    /\ scrape.pc = "fetch"
    /\ \/ /\ scrape' = [scrape EXCEPT !.pc = "tables", !.fetches = @ + 1]
          /\ UNCHANGED call
       \/ /\ scrape' = NoScrape
          /\ call' = [op |-> "get_locations_without_photos",
                      exc |-> Exc("ConnectionError", "requests.get"),
                      fetches |-> scrape.fetches + 1, fetched |-> FALSE, ret |-> <<>>]
    /\ UNCHANGED <<script, reader, locs, csvFile>>

\* lines 66-79: the next table's headers and column indices.  The page is
\* read as the loops reach it: any number of tables, at most MaxRows rows
\* over all of them.  A table lacking either column is skipped.
ScrapeTable ==
    /\ scrape.pc = "tables"
    /\ \E headers \in SeqsUpTo(HeaderTexts, MaxCells) :
         LET photo_index == FirstIndex(headers, photo_col)
             location_index == FirstIndex(headers, location_col)
         IN IF ~photo_index.isNone /\ ~location_index.isNone
            THEN scrape' = [scrape EXCEPT !.pc = "rows",
                                          !.photo_index = photo_index,
                                          !.location_index = location_index]
            ELSE scrape' = scrape
    /\ UNCHANGED <<script, reader, call, locs, csvFile>>

\* lines 80-88: one <tr> of the current table
ScrapeRow ==
    /\ scrape.pc = "rows"
    /\ scrape.rowsDone < MaxRows
    /\ \E columns \in SeqsUpTo(CellKinds, MaxCells), geo \in GeoOutcomes :
         LET made == RowLocations(columns, scrape.photo_index.i,
                                  scrape.location_index.i, scrape.city, geo)
         IN IF made # <<>> /\ made[1].exc # NoExc
            THEN /\ scrape' = NoScrape
                 /\ call' = [op |-> "get_locations_without_photos",
                             exc |-> made[1].exc, fetches |-> scrape.fetches,
                             fetched |-> TRUE, ret |-> <<>>]
            ELSE /\ scrape' = [scrape EXCEPT
                                 !.rowsDone = @ + 1,
                                 !.row = columns,
                                 !.out = @ \o [i \in 1..Len(made) |-> made[i].obj]]
                 /\ UNCHANGED call
    /\ UNCHANGED <<script, reader, locs, csvFile>>

\* the row loop of a table is exhausted
ScrapeTableDone ==
    /\ scrape.pc = "rows"
    /\ scrape' = [scrape EXCEPT !.pc = "tables", !.photo_index = NoIndex,
                                !.location_index = NoIndex, !.row = <<>>]
    /\ UNCHANGED <<script, reader, call, locs, csvFile>>

\* line 90: the table loop is exhausted, return locations_without_photos
ScrapeReturn ==
    /\ scrape.pc = "tables"
    /\ scrape' = NoScrape
    /\ locs' = scrape.out
    /\ call' = [op |-> "get_locations_without_photos", exc |-> NoExc,
                fetches |-> scrape.fetches, fetched |-> TRUE, ret |-> scrape.out]
    /\ UNCHANGED <<script, reader, csvFile>>

StartLocations ==
    { NoStart,
      [isNone |-> FALSE,
       loc |-> Location(<<"s">>, <<"V">>, NoneStr, [kind |-> "none", latitude |-> 0, longitude |-> 0]).obj],
      [isNone |-> FALSE,
       loc |-> Location(<<"s">>, <<"V">>, NoneStr, [kind |-> "found", latitude |-> 48, longitude |-> 121]).obj] }

\* generate_google_maps_url_for_ios(locs, start_location)
GenerateUrl ==
    /\ script = "heritage_photos"
    /\ scrape = NoScrape
    /\ call # NoCall
    /\ \E start \in StartLocations :
         LET r == generate_google_maps_url_for_ios(locs, start)
         IN call' = [op |-> "generate_google_maps_url_for_ios", start |-> start,
                     exc |-> r.exc, url |-> r.url]
    /\ UNCHANGED <<script, reader, locs, csvFile, scrape>>

\* to_csv(locs)
ToCsv ==
    /\ script = "heritage_photos"
    /\ scrape = NoScrape
    /\ call # NoCall
    /\ LET r == to_csv(locs)
       IN /\ csvFile' = r.file
          /\ call' = [op |-> "to_csv", exc |-> r.exc]
    /\ UNCHANGED <<script, reader, locs, scrape>>

Next ==
    \/ NewAiReader
    \/ CallReadFile
    \/ Summarize
    \/ AppendLocation
    \/ ScrapeCall
    \/ ScrapeFetch
    \/ ScrapeTable
    \/ ScrapeRow
    \/ ScrapeTableDone
    \/ ScrapeReturn
    \/ GenerateUrl
    \/ ToCsv

Spec == Init /\ [][Next]_vars

----------------------------------------------------------------------------
(* Properties *)

\* A step of the row loop of get_locations_without_photos was taken.
RowStep ==
    /\ scrape.pc = "rows"
    /\ scrape'.pc = "rows"
    /\ scrape'.rowsDone = scrape.rowsDone + 1

\* out' is out with exactly one Location appended, built from the text of the
\* <td> at the location index and the city of the call.
AppendsOneLocation(row, l) ==
    /\ Len(scrape'.out) = Len(scrape.out) + 1
    /\ SubSeq(scrape'.out, 1, Len(scrape.out)) = scrape.out
    /\ LET loc == scrape'.out[Len(scrape'.out)]
       IN /\ loc.address = Strip(row[l + 1].text)
          /\ loc.city = scrape.city

ReturnsTheList ==
    (scrape.pc = "tables" /\ scrape'.pc = "idle")
        => /\ locs' = scrape.out
           /\ call'.ret = scrape.out
           /\ call'.exc = NoExc

\* C1 as stated: every row whose photo cell holds an image produces no
\* Location, and every row whose photo cell holds no image produces exactly
\* one Location in the returned list.
C1_EveryRowWithoutImageListed ==
    [][ /\ RowStep =>
            LET row == scrape'.row
                p == scrape.photo_index.i
                l == scrape.location_index.i
            IN /\ (Len(row) > p /\ row[p + 1].img) => scrape'.out = scrape.out
               /\ (Len(row) > p /\ ~row[p + 1].img) =>
                      /\ Len(row) > l
                      /\ AppendsOneLocation(row, l)
        /\ ReturnsTheList ]_vars

\* C1 (amended): in a table having both columns, a row that has both the
\* photo <td> and the location <td> produces no Location when the photo cell
\* holds an image and exactly one Location, appended in row order and built
\* from the stripped location text and the city, when it holds none; a row
\* lacking either cell produces none; the list built is the list returned.
C1_RowsWithBothCells ==
    [][ /\ RowStep =>
            LET row == scrape'.row
                p == scrape.photo_index.i
                l == scrape.location_index.i
            IN /\ ~scrape.photo_index.isNone /\ ~scrape.location_index.isNone
               /\ (Len(row) > p /\ Len(row) > l /\ row[p + 1].img)
                      => scrape'.out = scrape.out
               /\ (Len(row) > p /\ Len(row) > l /\ ~row[p + 1].img)
                      => AppendsOneLocation(row, l)
               /\ (Len(row) <= p \/ Len(row) <= l) => scrape'.out = scrape.out
        /\ ReturnsTheList ]_vars

\* a row without an image in its photo cell has just been listed
C1_Witness ==
    /\ scrape.pc = "rows"
    /\ scrape.rowsDone >= 1
    /\ Len(scrape.row) > scrape.photo_index.i
    /\ Len(scrape.row) > scrape.location_index.i
    /\ ~scrape.row[scrape.photo_index.i + 1].img
    /\ scrape.out # <<>>
    /\ scrape.out[Len(scrape.out)].address = <<"b">>

\* the coordinate pairs of a list, joined by "+to:"
RECURSIVE CoordinatesFrom(_, _)
CoordinatesFrom(locations, i) ==
    IF i > Len(locations) THEN <<>>
    ELSE (IF i > 1 THEN <<"+to:">> ELSE <<>>)
         \o LatLon(locations[i]) \o CoordinatesFrom(locations, i + 1)

\* C2: without a start location and for a non-empty list, the url's saddr is
\* the "latitude,longitude" pair of the first location and its daddr the
\* pairs of all locations in input order joined by "+to:".
C2_OriginIsFirstCoordinates ==
    (call.op = "generate_google_maps_url_for_ios" /\ call.start.isNone /\ locs # <<>>)
        => /\ call.exc = NoExc
           /\ call.url = <<"comgooglemaps://?saddr=">> \o LatLon(locs[1])
                         \o <<"&daddr=">> \o CoordinatesFrom(locs, 1)

\* C3: constructing an AiReader with a model name that does not contain
\* "claude" ends in the unsupported-model error whatever file and text are,
\* and no client is created.
C3_UnsupportedModelError ==
    (call.op = "AiReader" /\ ~IsSubstring(Claude, call.model))
        => /\ call.exc = Exc("NotImplementedError", "Model not supported")
           /\ \A i \in 1..Len(call.trace) : call.trace[i] # "Anthropic"
           /\ ~reader.live

\* the extension of a path: from its last "." on, empty without one
RECURSIVE Suffix(_)
Suffix(s) ==
    IF s = <<>> THEN <<>>
    ELSE IF \A i \in 1..Len(s) : s[i] # "." THEN <<>>
    ELSE IF Head(s) = "." /\ \A i \in 2..Len(s) : s[i] # "." THEN s
    ELSE Suffix(Tail(s))

TouchesFile(trace) ==
    \E i \in 1..Len(trace) :
        trace[i] \in {"open", "read", "PdfReader", "extract_text",
                      "convert_from_path", "image_to_string"}

\* C4: read_file on a non-empty path whose extension is neither .pdf nor
\* .txt fails with the unsupported-format error, without opening the file,
\* parsing a pdf or running OCR.
C4_UnsupportedFormatError ==
    (call.op = "read_file" /\ call.file.kind \in {"str", "Path"} /\ call.file.s # <<>>
        /\ Suffix(call.file.s) \notin {DotPdf, DotTxt})
        => /\ call.exc = Exc("NotImplementedError", "File type not supported")
           /\ ~TouchesFile(call.trace)

RECURSIVE ConcatEmbedded(_, _)
ConcatEmbedded(pages, i) ==
    IF i > Len(pages) THEN <<>> ELSE pages[i].embedded \o ConcatEmbedded(pages, i + 1)

RECURSIVE ConcatOcr(_, _)
ConcatOcr(pages, i) ==
    IF i > Len(pages) THEN <<>> ELSE pages[i].ocr \o ConcatOcr(pages, i + 1)

OcrInvoked(trace) == \E i \in 1..Len(trace) : trace[i] = "convert_from_path"

\* C5: read_file on a .pdf path returns the pages' embedded text in page
\* order when that is non-empty; OCR runs if and only if it is empty, and the
\* result is then the pages' OCR text in page order.
C5_PdfTextOrOcr ==
    (call.op = "read_file" /\ call.file.kind \in {"str", "Path"}
        /\ Suffix(call.file.s) = DotPdf /\ call.disk.exists)
        => LET embedded == ConcatEmbedded(call.disk.pages, 1)
           IN /\ OcrInvoked(call.trace) <=> embedded = <<>>
              /\ call.exc = NoExc
              /\ call.ret = Str(IF embedded # <<>> THEN embedded
                                ELSE ConcatOcr(call.disk.pages, 1))

\* C6: constructing a Location never fails; when the geocoder raises or finds
\* nothing its latitude and longitude are both None; latitude and longitude
\* of every Location are both present or both absent.
C6_GeocodingNeverSurfaces ==
    /\ call.op = "Location" =>
          /\ call.exc = NoExc
          /\ call.geo.kind \in {"raise", "none"} =>
                latitude(call.obj).isNone /\ longitude(call.obj).isNone
          /\ call.geo.kind = "found" =>
                /\ latitude(call.obj) = Float(call.geo.latitude)
                /\ longitude(call.obj) = Float(call.geo.longitude)
    /\ call.op = "get_locations_without_photos" =>
          call.exc \in {NoExc, Exc("ConnectionError", "requests.get")}
    /\ \A i \in 1..Len(locs) : latitude(locs[i]).isNone <=> longitude(locs[i]).isNone
    /\ scrape.pc # "idle" =>
          \A i \in 1..Len(scrape.out) :
              latitude(scrape.out[i]).isNone <=> longitude(scrape.out[i]).isNone

\* a Location was constructed while the geocoder raised
C6_Witness ==
    /\ call.op = "Location"
    /\ call.geo.kind = "raise"
    /\ call.exc = NoExc
    /\ locs # <<>>
    /\ latitude(locs[Len(locs)]).isNone

\* C7: to_csv writes, for every list of Locations, a header and exactly one
\* data row per location in input order, with the columns address, city and
\* name and none for geopy_location.
C7_OneRowPerLocation ==
    call.op = "to_csv"
        => /\ call.exc = NoExc
           /\ csvFile.exists
           /\ csvFile.header = <<"address", "city", "name">>
           /\ Len(csvFile.rows) = Len(locs)
           /\ \A i \in 1..Len(locs) :
                 csvFile.rows[i] = <<locs[i].address, locs[i].city,
                                     IF locs[i].name.isNone THEN <<>> ELSE locs[i].name.s>>

\* C8: read_file called with None or the empty string raises the
\* invalid-input error before any extension check or file access, never the
\* unsupported-format error.
C8_MissingPathIsInvalidInput ==
    (call.op = "read_file"
        /\ (call.file.kind = "None" \/ (call.file.kind = "str" /\ call.file.s = <<>>)))
        => /\ call.exc = Exc("ValueError", "No file path provided")
           /\ call.trace = <<>>

\* read_file(None) has raised ValueError
C8_Witness ==
    /\ call.op = "read_file"
    /\ call.file = NoFile
    /\ call.exc.cls = "ValueError"

\* the text read_file extracts from a document
ExtractedText(file, disk) ==
    IF Suffix(file.s) = DotPdf
    THEN (IF ConcatEmbedded(disk.pages, 1) # <<>> THEN ConcatEmbedded(disk.pages, 1)
          ELSE ConcatOcr(disk.pages, 1))
    ELSE disk.content

\* C9: after every successful construction of an AiReader its text is
\* present: the supplied text when one was supplied (the file is then not
\* read), otherwise the text extracted from the file; summarize calls neither
\* change the text nor read the file.
C9_TextPresentAfterConstruction ==
    /\ (call.op = "AiReader" /\ call.exc = NoExc) =>
          /\ reader.live
          /\ ~reader.text.isNone
          /\ ~call.text.isNone => (reader.text = call.text /\ ~TouchesFile(call.trace))
          /\ call.text.isNone => reader.text = Str(ExtractedText(call.file, call.disk))
    /\ call.op = "summarize" =>
          /\ reader = call.before
          /\ ~TouchesFile(call.trace)

\* C10: no external call is retried and a network failure propagates: a
\* summarize call issues exactly one LLM request and a
\* get_locations_without_photos call exactly one page fetch; when that call
\* fails the operation ends with its error and returns nothing.
C10_NoRetries ==
    /\ call.op = "summarize" =>
          /\ Len(call.sent) = 1
          /\ Cardinality({i \in 1..Len(call.trace) : call.trace[i] = "messages.create"}) = 1
          /\ ~call.llm.ok =>
                /\ call.exc = Exc("APIConnectionError", "connection error")
                /\ call.ret.isNone
    /\ call.op = "get_locations_without_photos" =>
          /\ call.fetches = 1
          /\ ~call.fetched =>
                /\ call.exc = Exc("ConnectionError", "requests.get")
                /\ call.ret = <<>>
                /\ locs = <<>>
    /\ scrape.pc \in {"tables", "rows"} => scrape.fetches = 1

\* a summarize call whose LLM request failed
C10_Witness ==
    /\ call.op = "summarize"
    /\ ~call.llm.ok
    /\ call.exc.cls = "APIConnectionError"

====
